---------------------------- MODULE Spec2Model ----------------------------
(***************************************************************************)
(* The single-node Plumtree automaton of src/src/node.rs: Node<N, M> with  *)
(* its peer sets, received-message set, logical clock and action queue,    *)
(* and the MissingMessages tracker as node.rs defines it (a PhantomData    *)
(* holder whose push / cancel_timer / handle_node_down have empty bodies   *)
(* and whose pop_expired / get_by_id are panic!()).                        *)
(*                                                                         *)
(* Every handler is an operator from the node (a record of its fields) to  *)
(* the node it leaves behind.  A panic unwinds out of the public method:   *)
(* the fields keep what was assigned before the panic, the statements      *)
(* after it are skipped, and the call is recorded as panicked.  The node   *)
(* is an ordinary value owned by the driver, so a driver that catches the  *)
(* unwind can keep calling it; the model allows that.                      *)
(*                                                                         *)
(* Spec drives one node with every public call; SpecFifo drives it with a  *)
(* driver that lets actions of several events queue up; SpecNet runs three *)
(* nodes that are each other's neighbours and routes their Sends.          *)
(***************************************************************************)
EXTENDS Integers, Sequences, FiniteSets, TLC

\* ------------------------------------------------------------ bounds
\* The driver feeds an event while at most MaxQueue actions are still queued,
\* and polls otherwise.
MaxQueue == 0
\* Rounds are u64 in the code; the model scales the type down to
\* 0..RoundMax, RoundMax standing for u64::MAX (where saturating_add stops).
\* It leaves room for two rounds that differ by the optimization threshold.
RoundMax == 3
\* handle_tick is accepted while clock < MaxClock.
MaxClock == 1

\* ------------------------------------------------------------ values
node_id == "n0"
Peers == {"p1", "p2"}
Nodes == Peers \cup {node_id}
MessageIds == {"m1", "m2"}
Rounds == 0..RoundMax
\* Option::None (Option<M> of GraftMessage, Option<Action>, Option<IhaveMessage>)
None == "None"

GossipMessage(s, id, r) == [kind |-> "Gossip", sender |-> s, message_id |-> id, round |-> r]
IhaveMessage(s, id, r) == [kind |-> "Ihave", sender |-> s, message_id |-> id, round |-> r]
GraftMessage(s, id, r) == [kind |-> "Graft", sender |-> s, message_id |-> id, round |-> r]
PruneMessage(s) == [kind |-> "Prune", sender |-> s]

\* The rounds of the messages the driver feeds: the smallest and the largest.
EventRounds == {0, RoundMax}

\* The messages a driver may hand to handle_message.
Message ==
    {GossipMessage(s, id, r) : s \in Nodes, id \in MessageIds, r \in EventRounds}
    \cup {IhaveMessage(s, id, r) : s \in Nodes, id \in MessageIds, r \in EventRounds}
    \cup {GraftMessage(s, id, r) : s \in Nodes, id \in MessageIds \cup {None}, r \in EventRounds}
    \cup {PruneMessage(s) : s \in Nodes}

Send(t, m) == [type |-> "Send", target |-> t, message |-> m]
Deliver(id) == [type |-> "Deliver", message_id |-> id]

\* ------------------------------------------------------------ ActionQueue
send(q, target, message) == Append(q, Send(target, message))
deliver(q, id) == Append(q, Deliver(id))
pop(q) == IF q = <<>> THEN [ret |-> None, queue |-> q]
          ELSE [ret |-> Head(q), queue |-> Tail(q)]

saturating_add(r, n) == IF r + n > RoundMax THEN RoundMax ELSE r + n

\* ------------------------------------------------------------ MissingMessages
\* The tracker holds no data (PhantomData); `ms` is the set of IhaveMessage
\* entries it holds, which the bodies below never change.
MissingMessages_new == {}

\* Mutant of push: the announcement is stored.
push_stores(ms, m) == ms \cup {m}

push(ms, m) == ms

\* panic!(): the call never returns a value.
pop_expired(ms, now) == [panicked |-> TRUE, ret |-> None, missing |-> ms]

cancel_timer(ms, id) == ms

handle_node_down(ms, n) == ms

get_by_id(ms, id) == [panicked |-> TRUE, ret |-> None]

\* ------------------------------------------------------------ Node
Node_new(id) ==
    [node_id |-> id,
     eager_push_peers |-> {},
     lazy_push_peers |-> {},
     missing |-> MissingMessages_new,
     received_msgs |-> {},
     action_queue |-> <<>>,
     clock |-> 0,
     panicked |-> FALSE]

is_known_node(self, n) ==
    n \in self.eager_push_peers \/ n \in self.lazy_push_peers

\* All enumerations of a finite set: the orders in which a HashSet may be
\* iterated.
Orders(S) ==
    {f \in [1..Cardinality(S) -> S] : \A i, j \in 1..Cardinality(S) : f[i] = f[j] => i = j}

\* for p in eager_push_peers.iter().filter(|n| **n != sender) { send(p, m) }
RECURSIVE SendEach(_, _, _, _)
SendEach(q, order, sender, m) ==
    IF order = <<>> THEN q
    ELSE SendEach(IF Head(order) # sender THEN send(q, Head(order), m) ELSE q,
                  Tail(order), sender, m)

\* Mutant of eager_push: the sender field is not rewritten to node_id.
eager_push_keeps_sender(self, m, order) ==
    [self EXCEPT !.action_queue =
        SendEach(@, order, m.sender,
                 GossipMessage(m.sender, m.message_id, saturating_add(m.round, 1)))]

\* Mutant of eager_push: the sender of the message is not filtered out.
eager_push_to_sender(self, m, order) ==
    [self EXCEPT !.action_queue =
        SendEach(@, order, self.node_id,
                 GossipMessage(self.node_id, m.message_id, saturating_add(m.round, 1)))]

eager_push(self, m, order) ==
    [self EXCEPT !.action_queue =
        SendEach(@, order, m.sender,
                 GossipMessage(self.node_id, m.message_id, saturating_add(m.round, 1)))]

lazy_push(self, m, order) ==
    [self EXCEPT !.action_queue =
        SendEach(@, order, m.sender,
                 IhaveMessage(self.node_id, m.message_id, saturating_add(m.round, 1)))]

optimize(self, m) ==
    LET r == get_by_id(self.missing, m.message_id) IN
    IF r.panicked THEN [self EXCEPT !.panicked = TRUE]
    ELSE IF r.ret = None THEN self
    ELSE LET ihave == r.ret
             threshold == 3 IN
         IF ihave.round < m.round /\ (m.round - ihave.round) >= threshold
         THEN [self EXCEPT !.action_queue =
                  send(send(@, ihave.sender, GraftMessage(self.node_id, None, ihave.round)),
                       m.sender, PruneMessage(self.node_id))]
         ELSE self

\* Mutant of handle_gossip: a first-seen message_id is not recorded in
\* received_msgs.
handle_gossip_not_recorded(self, m, order) ==
    IF m.message_id \in self.received_msgs
    THEN [self EXCEPT !.eager_push_peers = @ \ {m.sender},
                      !.lazy_push_peers = @ \cup {m.sender},
                      !.action_queue = send(@, m.sender, PruneMessage(self.node_id))]
    ELSE LET s1 == [self EXCEPT !.action_queue = deliver(@, m.message_id),
                                !.missing = cancel_timer(@, m.message_id)]
             s2 == eager_push(s1, m, order)
             s3 == lazy_push(s2, m, order)
             s4 == [s3 EXCEPT !.eager_push_peers = @ \cup {m.sender},
                              !.lazy_push_peers = @ \ {m.sender}]
         IN optimize(s4, m)

\* Mutant of handle_gossip: the sender of a duplicate stays eager.
handle_gossip_duplicate_stays_eager(self, m, order) ==
    IF m.message_id \in self.received_msgs
    THEN [self EXCEPT !.lazy_push_peers = @ \cup {m.sender},
                      !.action_queue = send(@, m.sender, PruneMessage(self.node_id))]
    ELSE LET s1 == [self EXCEPT !.action_queue = deliver(@, m.message_id),
                                !.received_msgs = @ \cup {m.message_id},
                                !.missing = cancel_timer(@, m.message_id)]
             s2 == eager_push(s1, m, order)
             s3 == lazy_push(s2, m, order)
             s4 == [s3 EXCEPT !.eager_push_peers = @ \cup {m.sender},
                              !.lazy_push_peers = @ \ {m.sender}]
         IN optimize(s4, m)

\* Mutant of handle_gossip: a duplicate is delivered again.
handle_gossip_duplicate_delivers(self, m, order) ==
    IF m.message_id \in self.received_msgs
    THEN [self EXCEPT !.eager_push_peers = @ \ {m.sender},
                      !.lazy_push_peers = @ \cup {m.sender},
                      !.action_queue = send(deliver(@, m.message_id),
                                            m.sender, PruneMessage(self.node_id))]
    ELSE LET s1 == [self EXCEPT !.action_queue = deliver(@, m.message_id),
                                !.received_msgs = @ \cup {m.message_id},
                                !.missing = cancel_timer(@, m.message_id)]
             s2 == eager_push(s1, m, order)
             s3 == lazy_push(s2, m, order)
             s4 == [s3 EXCEPT !.eager_push_peers = @ \cup {m.sender},
                              !.lazy_push_peers = @ \ {m.sender}]
         IN optimize(s4, m)

\* Mutant of handle_gossip: the Deliver is enqueued after the pushes.
handle_gossip_deliver_last(self, m, order) ==
    IF m.message_id \in self.received_msgs
    THEN [self EXCEPT !.eager_push_peers = @ \ {m.sender},
                      !.lazy_push_peers = @ \cup {m.sender},
                      !.action_queue = send(@, m.sender, PruneMessage(self.node_id))]
    ELSE LET s1 == [self EXCEPT !.received_msgs = @ \cup {m.message_id},
                                !.missing = cancel_timer(@, m.message_id)]
             s2 == eager_push(s1, m, order)
             s3 == lazy_push(s2, m, order)
             s4 == [s3 EXCEPT !.eager_push_peers = @ \cup {m.sender},
                              !.lazy_push_peers = @ \ {m.sender},
                              !.action_queue = deliver(@, m.message_id)]
         IN optimize(s4, m)

handle_gossip(self, m, order) ==
    IF m.message_id \in self.received_msgs
    THEN [self EXCEPT !.eager_push_peers = @ \ {m.sender},
                      !.lazy_push_peers = @ \cup {m.sender},
                      !.action_queue = send(@, m.sender, PruneMessage(self.node_id))]
    ELSE LET s1 == [self EXCEPT !.action_queue = deliver(@, m.message_id),
                                !.received_msgs = @ \cup {m.message_id},
                                !.missing = cancel_timer(@, m.message_id)]
             s2 == eager_push(s1, m, order)
             s3 == lazy_push(s2, m, order)
             s4 == [s3 EXCEPT !.eager_push_peers = @ \cup {m.sender},
                              !.lazy_push_peers = @ \ {m.sender}]
         IN optimize(s4, m)

handle_ihave(self, m) ==
    IF m.message_id \in self.received_msgs THEN self
    ELSE [self EXCEPT !.missing = push(@, m)]

\* Mutant of handle_graft: the reply carries the next round.
handle_graft_next_round(self, m) ==
    LET s1 == [self EXCEPT !.eager_push_peers = @ \cup {m.sender},
                           !.lazy_push_peers = @ \ {m.sender}] IN
    IF m.message_id # None /\ m.message_id \in s1.received_msgs
    THEN [s1 EXCEPT !.action_queue =
             send(@, m.sender,
                  GossipMessage(self.node_id, m.message_id, saturating_add(m.round, 1)))]
    ELSE s1

handle_graft(self, m) ==
    LET s1 == [self EXCEPT !.eager_push_peers = @ \cup {m.sender},
                           !.lazy_push_peers = @ \ {m.sender}] IN
    IF m.message_id # None /\ m.message_id \in s1.received_msgs
    THEN [s1 EXCEPT !.action_queue =
             send(@, m.sender, GossipMessage(self.node_id, m.message_id, m.round))]
    ELSE s1

\* Mutant of handle_prune: the sender is removed from the eager set and not
\* inserted into the lazy one.
handle_prune_forgets(self, m) ==
    [self EXCEPT !.eager_push_peers = @ \ {m.sender}]

handle_prune(self, m) ==
    [self EXCEPT !.eager_push_peers = @ \ {m.sender},
                 !.lazy_push_peers = @ \cup {m.sender}]

\* Mutant of handle_message: no is_known_node gate before the dispatch.
handle_message_no_gate(self, message, order) ==
    CASE message.kind = "Gossip" -> handle_gossip(self, message, order)
      [] message.kind = "Ihave" -> handle_ihave(self, message)
      [] message.kind = "Graft" -> handle_graft(self, message)
      [] message.kind = "Prune" -> handle_prune(self, message)

handle_message(self, message, order) ==
    IF ~is_known_node(self, message.sender) THEN self
    ELSE CASE message.kind = "Gossip" -> handle_gossip(self, message, order)
           [] message.kind = "Ihave" -> handle_ihave(self, message)
           [] message.kind = "Graft" -> handle_graft(self, message)
           [] message.kind = "Prune" -> handle_prune(self, message)

handle_neighbour_up(self, n) ==
    IF self.node_id = n THEN self
    ELSE [self EXCEPT !.eager_push_peers = @ \cup {n}]

\* Mutant of handle_neighbour_down: a lazy peer is not removed.
handle_neighbour_down_keeps_lazy(self, n) ==
    [self EXCEPT !.eager_push_peers = @ \ {n},
                 !.missing = handle_node_down(@, n)]

handle_neighbour_down(self, n) ==
    [self EXCEPT !.eager_push_peers = @ \ {n},
                 !.lazy_push_peers = @ \ {n},
                 !.missing = handle_node_down(@, n)]

\* Mutant of forget_message: the id is not removed.
forget_message_keeps(self, id) == self

forget_message(self, id) ==
    [self EXCEPT !.received_msgs = @ \ {id}]

\* while let Some(ihave) = self.missing.pop_expired(self.clock) { ... }
RECURSIVE TickLoop(_)
TickLoop(self) ==
    LET r == pop_expired(self.missing, self.clock) IN
    IF r.panicked THEN [self EXCEPT !.panicked = TRUE]
    ELSE IF r.ret = None THEN self
    ELSE LET ihave == r.ret
             s1 == [self EXCEPT !.missing = r.missing] IN
         IF ~is_known_node(s1, ihave.sender) THEN TickLoop(s1)
         ELSE TickLoop(
                [s1 EXCEPT !.eager_push_peers = @ \cup {ihave.sender},
                           !.lazy_push_peers = @ \ {ihave.sender},
                           !.action_queue =
                               send(@, ihave.sender,
                                    GraftMessage(self.node_id, ihave.message_id, ihave.round))])

handle_tick(self) ==
    TickLoop([self EXCEPT !.clock = @ + 1])

poll_action(self) ==
    [self EXCEPT !.action_queue = pop(@).queue]

\* ------------------------------------------------------------ state machine
VARIABLES
    eager_push_peers, lazy_push_peers, missing, received_msgs, action_queue, clock,
    \* the last public call: its name (op), its argument (arg; of a message
    \* its kind, sender and message_id), whether the argument was there when
    \* the call began (found: the sender or neighbour
    \* was a known node, the forgotten id was in received_msgs), what the call
    \* returned (ret) and whether it unwound with a panic (panicked)
    last

vars == <<eager_push_peers, lazy_push_peers, missing, received_msgs, action_queue, clock, last>>

\* The node as the record the operators above work on.
Self ==
    [node_id |-> node_id,
     eager_push_peers |-> eager_push_peers,
     lazy_push_peers |-> lazy_push_peers,
     missing |-> missing,
     received_msgs |-> received_msgs,
     action_queue |-> action_queue,
     clock |-> clock,
     panicked |-> FALSE]

Call(op, arg, found, ret, panicked) ==
    [op |-> op, arg |-> arg, found |-> found, ret |-> ret, panicked |-> panicked]

\* What `last` keeps of a message.
Brief(message) ==
    IF message.kind = "Prune" THEN message
    ELSE [kind |-> message.kind, sender |-> message.sender,
          message_id |-> message.message_id]

\* The node after a public call that left it as `t`.
Becomes(t, op, arg, found, ret) ==
    /\ eager_push_peers' = t.eager_push_peers
    /\ lazy_push_peers' = t.lazy_push_peers
    /\ missing' = t.missing
    /\ received_msgs' = t.received_msgs
    /\ action_queue' = t.action_queue
    /\ clock' = t.clock
    /\ last' = Call(op, arg, found, ret, t.panicked)

Init ==
    /\ eager_push_peers = Node_new(node_id).eager_push_peers
    /\ lazy_push_peers = Node_new(node_id).lazy_push_peers
    /\ missing = Node_new(node_id).missing
    /\ received_msgs = Node_new(node_id).received_msgs
    /\ action_queue = Node_new(node_id).action_queue
    /\ clock = Node_new(node_id).clock
    /\ last = Call("new", node_id, FALSE, None, FALSE)

\* Only handle_gossip iterates eager_push_peers.
IterationOrders(message) ==
    IF message.kind = "Gossip" THEN Orders(eager_push_peers) ELSE {<<>>}

\* The driver's bound on feeding events.
Accepting == Len(action_queue) <= MaxQueue

HandleMessage ==
    \E message \in Message : \E order \in IterationOrders(message) :
        /\ Accepting
        /\ Becomes(handle_message(Self, message, order), "handle_message", Brief(message),
                   is_known_node(Self, message.sender), None)

HandleNeighbourUp ==
    \E n \in Nodes :
        /\ Accepting
        /\ Becomes(handle_neighbour_up(Self, n), "handle_neighbour_up", n,
                is_known_node(Self, n), None)

HandleNeighbourDown ==
    \E n \in Nodes :
        /\ Accepting
        /\ Becomes(handle_neighbour_down(Self, n), "handle_neighbour_down", n,
                is_known_node(Self, n), None)

ForgetMessage ==
    \E id \in MessageIds :
        /\ Accepting
        /\ Becomes(forget_message(Self, id), "forget_message", id, id \in received_msgs, None)

HandleTick ==
    /\ Accepting
    /\ clock < MaxClock
    /\ Becomes(handle_tick(Self), "handle_tick", None, FALSE, None)

PollAction ==
    Becomes(poll_action(Self), "poll_action", None, FALSE, pop(action_queue).ret)

Next ==
    \/ HandleMessage
    \/ HandleNeighbourUp
    \/ HandleNeighbourDown
    \/ ForgetMessage
    \/ HandleTick
    \/ PollAction

Spec == Init /\ [][Next]_vars

\* ------------------------------------------------------------ queueing driver
\* A driver that keeps feeding events while up to FifoQueue actions are still
\* queued, so that the queue holds the actions of several events at once.  Its
\* events are the ones that enqueue actions or decide which ones are
\* enqueued: Gossip and Graft for one message id at round 0, neighbours
\* coming up, forget_message, and poll_action.
FifoQueue == 2
FifoId == "m1"

FifoMessage ==
    {GossipMessage(s, FifoId, 0) : s \in Peers} \cup {GraftMessage(s, FifoId, 0) : s \in Peers}

FifoAccepting == Len(action_queue) <= FifoQueue

FifoHandleMessage ==
    \E message \in FifoMessage : \E order \in IterationOrders(message) :
        /\ FifoAccepting
        /\ Becomes(handle_message(Self, message, order), "handle_message", Brief(message),
                   is_known_node(Self, message.sender), None)

FifoHandleNeighbourUp ==
    \E n \in Peers :
        /\ FifoAccepting
        /\ Becomes(handle_neighbour_up(Self, n), "handle_neighbour_up", n,
                   is_known_node(Self, n), None)

FifoForgetMessage ==
    /\ FifoAccepting
    /\ Becomes(forget_message(Self, FifoId), "forget_message", FifoId,
               FifoId \in received_msgs, None)

FifoNext ==
    \/ FifoHandleMessage
    \/ FifoHandleNeighbourUp
    \/ FifoForgetMessage
    \/ PollAction

SpecFifo == Init /\ [][FifoNext]_vars


\* ------------------------------------------------------------ several nodes
\* A simulation of independent Node instances: in this specification every
\* variable maps a node to that node's field.  The nodes are neighbours of
\* each other (a triangle), and each also has the virtual origin as a
\* neighbour, the peer an externally injected Gossip is received from.  A
\* Send polled from a node is handed to its target's handle_message in the
\* same step; a Send to the origin goes nowhere.  The simulation carries on
\* with a node after a call on it has unwound.
NetNodes == {"a", "b", "c"}
Origin == "o"
\* handle_tick is called on a node while its clock < NetClock.
NetClock == 1

NetNeighbours(n) == (NetNodes \ {n}) \cup {Origin}

\* handle_neighbour_up for every node of S, in some order.
RECURSIVE NeighboursUp(_, _)
NeighboursUp(self, S) ==
    IF S = {} THEN self
    ELSE LET n == CHOOSE x \in S : TRUE
         IN NeighboursUp(handle_neighbour_up(self, n), S \ {n})

\* Node n of the simulation as the record the handlers work on.
NetSelf(n) ==
    [node_id |-> n,
     eager_push_peers |-> eager_push_peers[n],
     lazy_push_peers |-> lazy_push_peers[n],
     missing |-> missing[n],
     received_msgs |-> received_msgs[n],
     action_queue |-> action_queue[n],
     clock |-> clock[n],
     panicked |-> FALSE]

\* The simulation: every node's record.
Net == [n \in NetNodes |-> NetSelf(n)]

\* The simulation after its nodes became what `net` says.
NetBecomes(net) ==
    /\ eager_push_peers' = [n \in NetNodes |-> net[n].eager_push_peers]
    /\ lazy_push_peers' = [n \in NetNodes |-> net[n].lazy_push_peers]
    /\ missing' = [n \in NetNodes |-> net[n].missing]
    /\ received_msgs' = [n \in NetNodes |-> net[n].received_msgs]
    /\ action_queue' = [n \in NetNodes |-> net[n].action_queue]
    /\ clock' = [n \in NetNodes |-> net[n].clock]
    /\ UNCHANGED last

NetInit ==
    /\ eager_push_peers =
         [n \in NetNodes |-> NeighboursUp(Node_new(n), NetNeighbours(n)).eager_push_peers]
    /\ lazy_push_peers =
         [n \in NetNodes |-> NeighboursUp(Node_new(n), NetNeighbours(n)).lazy_push_peers]
    /\ missing = [n \in NetNodes |-> Node_new(n).missing]
    /\ received_msgs = [n \in NetNodes |-> Node_new(n).received_msgs]
    /\ action_queue = [n \in NetNodes |-> Node_new(n).action_queue]
    /\ clock = [n \in NetNodes |-> Node_new(n).clock]
    /\ last = Call("new", NetNodes, FALSE, None, FALSE)

\* The ids are injected in the order of NetOrder.
NetOrder == <<"x", "y", "z">>
NetSeen(id) == \E k \in NetNodes : id \in received_msgs[k]

\* The next Gossip, for an id no node has seen, is injected at node n: n
\* receives it from the origin.
NetInject(n) ==
    \E i \in 1..Len(NetOrder) : \E order \in Orders(eager_push_peers[n]) :
        /\ ~NetSeen(NetOrder[i])
        /\ \A j \in 1..(i - 1) : NetSeen(NetOrder[j])
        /\ NetBecomes([k \in NetNodes |->
               IF k = n
               THEN handle_message(Net[n], GossipMessage(Origin, NetOrder[i], 0), order)
               ELSE Net[k]])

\* The simulations after one poll_action at node n of `net`, whose queue is
\* not empty: a Deliver goes to the application, a Send to its target's
\* handle_message (one outcome for every order in which the target may
\* iterate its eager set), a Send to the origin nowhere.
NetRouteOne(net, n) ==
    LET a == pop(net[n].action_queue).ret
        target == IF a.type = "Send" /\ a.target \in NetNodes \ {n} THEN a.target ELSE None
        orders == IF target # None /\ a.message.kind = "Gossip"
                  THEN Orders(net[target].eager_push_peers)
                  ELSE {<<>>}
    IN {[k \in NetNodes |->
           IF k = n THEN poll_action(net[n])
           ELSE IF k = target
                THEN [handle_message(net[k], a.message, order) EXCEPT !.panicked = FALSE]
                ELSE net[k]]
        : order \in orders}

\* while let Some(action) = node.poll_action() { route(action) }
RECURSIVE NetDrain(_, _)
NetDrain(net, n) ==
    IF net[n].action_queue = <<>> THEN {net}
    ELSE UNION {NetDrain(net1, n) : net1 \in NetRouteOne(net, n)}

\* The simulation polls node n until its queue is empty.
NetRoute(n) ==
    /\ action_queue[n] # <<>>
    /\ \E net \in NetDrain(Net, n) : NetBecomes(net)

\* The clock driver ticks every node.
NetTick ==
    /\ \A n \in NetNodes : clock[n] < NetClock
    /\ NetBecomes([n \in NetNodes |-> handle_tick(NetSelf(n))])

NetNext ==
    \/ \E n \in NetNodes : NetInject(n) \/ NetRoute(n)
    \/ NetTick

\* Every queued action is eventually polled and routed, and every node keeps
\* being ticked (while the bound allows).
SpecNet ==
    /\ NetInit
    /\ [][NetNext]_vars
    /\ \A n \in NetNodes : WF_vars(NetRoute(n))
    /\ WF_vars(NetTick)

\* ------------------------------------------------------------ properties
\* The actions a call that left the node as `t` appended to the queue.
Enqueued(t) ==
    SubSeq(t.action_queue, Len(action_queue) + 1, Len(t.action_queue))

\* The actions the step appended to the queue.
Appended ==
    SubSeq(action_queue', Len(action_queue) + 1, Len(action_queue'))

\* How many times action `a` occurs in the sequence `q`.
Count(q, a) == Cardinality({i \in 1..Len(q) : q[i] = a})

Delivers(q) == {i \in 1..Len(q) : q[i].type = "Deliver"}

\* The positions in `q` of a Graft sent to `target` that asks for `id`.
GraftsTo(q, target, id) ==
    {i \in 1..Len(q) : /\ q[i].type = "Send"
                       /\ q[i].target = target
                       /\ q[i].message.kind = "Graft"
                       /\ q[i].message.message_id = id}

\* The node after k further handle_tick calls.
RECURSIVE Ticks(_, _)
Ticks(self, k) == IF k = 0 THEN self ELSE Ticks(handle_tick(self), k - 1)

\* The largest number of ticks a repair deadline is looked for within.
RepairTicks == 2

KnownPeers == eager_push_peers \cup lazy_push_peers

\* C1: in every reachable state no peer is in both eager_push_peers and
\* lazy_push_peers, and node_id is in neither set.
C1_PeerRoles ==
    /\ eager_push_peers \cap lazy_push_peers = {}
    /\ node_id \notin eager_push_peers \cup lazy_push_peers

\* C2: every public operation runs to completion: no call ever unwinds with a
\* panic.
C2_Total == ~last.panicked

\* C3: handle_message with a sender in neither peer set changes nothing, for
\* every message kind: peer sets, received_msgs, missing entries, clock and
\* the action queue are as before.
C3_UnknownSenderDropped ==
    [][(/\ last'.op = "handle_message"
        /\ ~is_known_node(Self, last'.arg.sender))
       => UNCHANGED <<eager_push_peers, lazy_push_peers, missing, received_msgs,
                      action_queue, clock>>]_vars

\* C3 witness: a Graft from a node that is not a peer was handled by a node
\* that has peers and has received a message.
C3_Witness ==
    /\ last.op = "handle_message"
    /\ ~last.found
    /\ last.arg.kind = "Graft"
    /\ last.arg.message_id \in received_msgs
    /\ eager_push_peers # {}

\* C4: a Gossip from a known peer for a message_id not in received_msgs
\* enqueues exactly one Deliver action, Deliver(message_id), and leaves
\* message_id in received_msgs.
C4_FirstSeenGossip ==
    [][(/\ last'.op = "handle_message"
        /\ last'.arg.kind = "Gossip"
        /\ is_known_node(Self, last'.arg.sender)
        /\ last'.arg.message_id \notin received_msgs)
       => /\ Cardinality(Delivers(Appended)) = 1
          /\ Count(Appended, Deliver(last'.arg.message_id)) = 1
          /\ last'.arg.message_id \in received_msgs']_vars

\* C4 witness: a first-seen Gossip from a known peer was handled (its sender
\* is eager afterwards, where a duplicate would have made it lazy).
C4_Witness ==
    /\ last.op = "handle_message"
    /\ last.found
    /\ last.arg.kind = "Gossip"
    /\ last.arg.sender \in eager_push_peers
    /\ action_queue # <<>>
    /\ Head(action_queue) = Deliver(last.arg.message_id)
    /\ last.arg.message_id \in received_msgs

\* C5: a Gossip from a known peer P for a message_id already in
\* received_msgs enqueues exactly one action, Send(P, Prune{sender: node_id}),
\* and no Deliver; afterwards P is lazy and not eager.
C5_DuplicateGossip ==
    [][(/\ last'.op = "handle_message"
        /\ last'.arg.kind = "Gossip"
        /\ is_known_node(Self, last'.arg.sender)
        /\ last'.arg.message_id \in received_msgs)
       => /\ Appended = <<Send(last'.arg.sender, PruneMessage(node_id))>>
          /\ last'.arg.sender \in lazy_push_peers'
          /\ last'.arg.sender \notin eager_push_peers']_vars

\* C5 witness: a duplicate Gossip was handled and its Prune is queued.
C5_Witness ==
    /\ last.op = "handle_message"
    /\ last.found
    /\ last.arg.kind = "Gossip"
    /\ last.arg.sender \in lazy_push_peers
    /\ last.arg.message_id \in received_msgs
    /\ action_queue # <<>>
    /\ action_queue[Len(action_queue)] = Send(last.arg.sender, PruneMessage(node_id))

\* C6: after an Ihave from a known peer Q for an id not in received_msgs,
\* with no Gossip for id arriving and Q staying known, enough handle_tick
\* calls enqueue exactly one Send(Q, Graft{node_id, Some(id), r}) and leave Q
\* eager and not lazy.
C6_Repair ==
    (/\ last.op = "handle_message"
     /\ last.found
     /\ last.arg.kind = "Ihave"
     /\ last.arg.message_id \notin received_msgs)
    => \E k \in 1..RepairTicks :
         LET t == Ticks(Self, k)
             Q == last.arg.sender
         IN /\ Cardinality(GraftsTo(Enqueued(t), Q, last.arg.message_id)) = 1
            /\ Q \in t.eager_push_peers
            /\ Q \notin t.lazy_push_peers

C8_GraftReply ==
    \A R \in KnownPeers : \A mid \in MessageIds \cup {None} : \A k \in Rounds :
        LET t == handle_message(Self, GraftMessage(R, mid, k), <<>>) IN
        /\ R \in t.eager_push_peers
        /\ R \notin t.lazy_push_peers
        /\ Enqueued(t) = IF mid \in received_msgs
                         THEN <<Send(R, GossipMessage(node_id, mid, k))>>
                         ELSE <<>>

\* C8 witness: a known peer's Graft for a received message was answered with
\* the Gossip, and the peer is eager.
C8_Witness ==
    /\ last.op = "handle_message"
    /\ last.found
    /\ last.arg.kind = "Graft"
    /\ last.arg.message_id \in received_msgs
    /\ last.arg.sender \in eager_push_peers
    /\ action_queue # <<>>
    /\ \E k \in Rounds :
         action_queue[Len(action_queue)]
           = Send(last.arg.sender, GossipMessage(node_id, last.arg.message_id, k))

\* C9: after forget_message(id) the id is not in received_msgs, and a Gossip
\* for id from a known peer is handled as first-seen: exactly one Deliver,
\* Deliver(id), no Prune to the sender, and id is in received_msgs again.
C9_ForgetThenGossip ==
    (last.op = "forget_message")
    => LET id == last.arg IN
       /\ id \notin received_msgs
       /\ \A P \in KnownPeers : \A r \in Rounds : \A order \in Orders(eager_push_peers) :
            LET t == handle_message(Self, GossipMessage(P, id, r), order) IN
            /\ Cardinality(Delivers(Enqueued(t))) = 1
            /\ Count(Enqueued(t), Deliver(id)) = 1
            /\ Count(Enqueued(t), Send(P, PruneMessage(node_id))) = 0
            /\ id \in t.received_msgs

\* C9 witness: forget_message removed an id that was in received_msgs while
\* a peer is known, the other id staying received.
C9_Witness ==
    /\ last.op = "forget_message"
    /\ last.found
    /\ KnownPeers # {}
    /\ received_msgs # {}

\* C10: right after handle_neighbour_down(p), p is in neither peer set and no
\* missing-message entry has sender p, and no later handle_tick enqueues a
\* Graft to p.
C10_NeighbourDown ==
    (last.op = "handle_neighbour_down")
    => LET p == last.arg IN
       /\ p \notin eager_push_peers \cup lazy_push_peers
       /\ {e \in missing : e.sender = p} = {}
       /\ \A k \in 1..RepairTicks : \A id \in MessageIds \cup {None} :
            GraftsTo(Enqueued(Ticks(Self, k)), p, id) = {}

\* C10 witness: a known peer went down while another peer stays known.
C10_Witness ==
    /\ last.op = "handle_neighbour_down"
    /\ last.found
    /\ last.arg \notin KnownPeers
    /\ KnownPeers # {}

\* A node that is not among the driver's peers; a handle_neighbour_up for it
\* gives the node one more eager peer than the driver's peers alone.
Newcomer == "p3"

\* The node as it is, and as it is after handle_neighbour_up(Newcomer).
Neighbourhoods == {Self, handle_neighbour_up(Self, Newcomer)}

\* The positions in `q` of a message of kind `kind` sent to `target`.
SendsTo(q, target, kind) ==
    {i \in 1..Len(q) : /\ q[i].type = "Send"
                       /\ q[i].target = target
                       /\ q[i].message.kind = kind}

\* Handling m at node s enqueued, for every eager peer of s other than
\* m.sender, exactly one Gossip, the one for m.message_id with round `round`,
\* and no Gossip for anyone else (`enq`: what the call enqueued).
EagerPushed(s, m, enq, round) ==
    /\ \A p \in s.eager_push_peers \ {m.sender} :
         /\ Cardinality(SendsTo(enq, p, "Gossip")) = 1
         /\ Count(enq, Send(p, GossipMessage(node_id, m.message_id, round))) = 1
    /\ \A n \in (Nodes \cup {Newcomer}) \ (s.eager_push_peers \ {m.sender}) :
         SendsTo(enq, n, "Gossip") = {}

\* C11 as claimed: a first-seen Gossip m from a known peer enqueues, for every
\* peer p that is eager when m arrives and is not m.sender, exactly one
\* Send(p, Gossip{node_id, m.message_id, m.round + 1}), and no Gossip to
\* m.sender or to a peer outside eager_push_peers.
C11_EagerPushRoundPlusOne ==
    \A s \in Neighbourhoods : \A P \in s.eager_push_peers \cup s.lazy_push_peers :
    \A id \in MessageIds \ received_msgs : \A r \in Rounds :
    \A order \in Orders(s.eager_push_peers) :
        LET m == GossipMessage(P, id, r) IN
        \A enq \in {Enqueued(handle_message(s, m, order))} :
            EagerPushed(s, m, enq, r + 1)

\* C11 amended: as claimed, with the round m.round.saturating_add(1): one more
\* than m.round, except that the largest round stays as it is.
C11_EagerPush ==
    \A s \in Neighbourhoods : \A P \in s.eager_push_peers \cup s.lazy_push_peers :
    \A id \in MessageIds \ received_msgs : \A r \in Rounds :
    \A order \in Orders(s.eager_push_peers) :
        LET m == GossipMessage(P, id, r) IN
        \A enq \in {Enqueued(handle_message(s, m, order))} :
            EagerPushed(s, m, enq, IF r = RoundMax THEN RoundMax ELSE r + 1)

\* C11 witness: a first-seen Gossip from a known peer was handled and the
\* Gossip for the other eager peer is queued right after the Deliver.
C11_Witness ==
    /\ last.op = "handle_message"
    /\ last.found
    /\ last.arg.kind = "Gossip"
    /\ Len(action_queue) >= 2
    /\ action_queue[1] = Deliver(last.arg.message_id)
    /\ \E p \in eager_push_peers \ {last.arg.sender} :
         action_queue[2] = Send(p, GossipMessage(node_id, last.arg.message_id, 1))

\* C12: poll_action returns the head of the queue and removes exactly it, or
\* returns None from an empty queue; every other call leaves what is queued
\* in place and in order and only appends behind it (so actions come out in
\* the order they went in, each once, equal actions included); and the first
\* action a first-seen Gossip appends is its Deliver, all the others Sends.
C12_Fifo ==
    [][/\ (last'.op = "poll_action")
          => IF action_queue = <<>>
             THEN last'.ret = None /\ action_queue' = <<>>
             ELSE last'.ret = Head(action_queue) /\ action_queue' = Tail(action_queue)
       /\ (last'.op # "poll_action")
          => /\ Len(action_queue') >= Len(action_queue)
             /\ SubSeq(action_queue', 1, Len(action_queue)) = action_queue
       /\ (/\ last'.op = "handle_message"
           /\ last'.arg.kind = "Gossip"
           /\ is_known_node(Self, last'.arg.sender)
           /\ last'.arg.message_id \notin received_msgs)
          => /\ Appended # <<>>
             /\ Head(Appended) = Deliver(last'.arg.message_id)
             /\ \A i \in 2..Len(Appended) : Appended[i].type = "Send"]_vars

\* C12 witness: poll_action returned the Prune of a duplicate Gossip while
\* the Deliver and the Sends of a later first-seen Gossip are queued behind
\* it.
C12_Witness ==
    /\ last.op = "poll_action"
    /\ Len(action_queue) >= 3
    /\ last.ret.type = "Send"
    /\ last.ret.message.kind = "Prune"
    /\ Head(action_queue) = Deliver(FifoId)
    /\ action_queue[2].type = "Send"

\* The spec's name for the `threshold` of optimize.
OPTIMIZATION_THRESHOLD == 3

\* C13: when an Ihave for id with round r from a known peer Q is outstanding
\* and a first-seen Gossip for id arrives from P with a round at least
\* OPTIMIZATION_THRESHOLD above r, the node enqueues a Send of
\* Graft{node_id, None, round} to the announcer with the smallest round (Q, or
\* an earlier announcer with a round of at most r) followed by
\* Send(P, Prune{node_id}); a first-seen Gossip with a round below
\* OPTIMIZATION_THRESHOLD, which no announcement can undercut by that much,
\* enqueues neither a Graft nor a Prune.
C13_Optimize ==
    \A P \in KnownPeers : \A Q \in KnownPeers : \A id \in MessageIds \ received_msgs :
    \A r \in Rounds : \A r2 \in Rounds : \A order \in Orders(eager_push_peers) :
        \A enq \in {Enqueued(handle_message(
                        handle_message(Self, IhaveMessage(Q, id, r), <<>>),
                        GossipMessage(P, id, r2), order))} :
            /\ (r2 - r >= OPTIMIZATION_THRESHOLD)
               => \E i \in 1..(Len(enq) - 1) : \E Q1 \in KnownPeers : \E r1 \in 0..r :
                    /\ enq[i] = Send(Q1, GraftMessage(node_id, None, r1))
                    /\ enq[i + 1] = Send(P, PruneMessage(node_id))
            /\ (r2 < OPTIMIZATION_THRESHOLD)
               => \A n \in Nodes : /\ SendsTo(enq, n, "Graft") = {}
                                   /\ SendsTo(enq, n, "Prune") = {}

\* The positions in `q` of a Send whose message is of kind `kind`.
SendsOf(q, kind) ==
    {i \in 1..Len(q) : q[i].type = "Send" /\ q[i].message.kind = kind}

\* C14: a first-seen Gossip m from a known peer (with a round below the
\* largest, so that m.round + 1 is a round) enqueues
\* Send(p, Ihave{node_id, m.message_id, m.round + 1}) for exactly the peers p
\* in eager_push_peers other than m.sender, once each, after all Gossip
\* Sends of the event; and no peer that is in lazy_push_peers is the target
\* of any action of the event.
C14_LazyPush ==
    \A P \in KnownPeers : \A id \in MessageIds \ received_msgs :
    \A r \in Rounds \ {RoundMax} : \A order \in Orders(eager_push_peers) :
        \A enq \in {Enqueued(handle_message(Self, GossipMessage(P, id, r), order))} :
            /\ \A p \in eager_push_peers \ {P} :
                 /\ Cardinality(SendsTo(enq, p, "Ihave")) = 1
                 /\ Count(enq, Send(p, IhaveMessage(node_id, id, r + 1))) = 1
            /\ \A n \in Nodes \ (eager_push_peers \ {P}) : SendsTo(enq, n, "Ihave") = {}
            /\ \A i \in SendsOf(enq, "Gossip") : \A j \in SendsOf(enq, "Ihave") : i < j
            /\ \A p \in lazy_push_peers : \A i \in 1..Len(enq) :
                 enq[i].type = "Send" => enq[i].target # p

\* What a call that took the node from `s` to `t` appended to the queue.
Added(s, t) == SubSeq(t.action_queue, Len(s.action_queue) + 1, Len(t.action_queue))

\* C15: handle_tick returns with the clock advanced by exactly 1; two
\* announcements accepted at the same clock (from known peers, for ids not
\* received) expire within RepairTicks ticks, and the handle_tick at which
\* they expire enqueues one Graft for each of them and leaves neither in the
\* tracker; an announcement whose sender went down before that is dropped
\* without any action and without a change to the peer sets.
C15_TickDrains ==
    /\ \A t \in {handle_tick(Self)} : t.clock = clock + 1 /\ ~t.panicked
    /\ \A Q1 \in KnownPeers : \A Q2 \in KnownPeers :
       \A id1 \in MessageIds \ received_msgs : \A id2 \in MessageIds \ received_msgs :
       \A r \in EventRounds :
         (<<Q1, id1>> # <<Q2, id2>>)
         => \A s \in {handle_message(handle_message(Self, IhaveMessage(Q1, id1, r), <<>>),
                                     IhaveMessage(Q2, id2, r), <<>>)} :
              \E k \in 1..RepairTicks :
                \A a \in {Ticks(s, k - 1)} : \A b \in {handle_tick(a)} :
                  /\ Cardinality(GraftsTo(Added(a, b), Q1, id1)) = 1
                  /\ Cardinality(GraftsTo(Added(a, b), Q2, id2)) = 1
                  /\ {e \in b.missing : e.message_id \in {id1, id2}} = {}
    /\ \A Q \in KnownPeers : \A id \in MessageIds \ received_msgs : \A r \in EventRounds :
         \A s \in {handle_neighbour_down(handle_message(Self, IhaveMessage(Q, id, r), <<>>), Q)} :
           \A k \in 1..RepairTicks : \A b \in {Ticks(s, k)} :
             /\ Added(s, b) = <<>>
             /\ b.eager_push_peers = s.eager_push_peers
             /\ b.lazy_push_peers = s.lazy_push_peers

\* The entries the tracker `ms` holds for message `id` announced by `sender`.
EntriesOf(ms, id, sender) == {e \in ms : e.message_id = id /\ e.sender = sender}

\* C16: an Ihave from a known peer Q for an id in received_msgs changes
\* nothing (no entry, no action, same peer sets) and no later handle_tick
\* enqueues a Graft for it; an Ihave for an id not in received_msgs enqueues
\* nothing and leaves exactly one entry for (id, Q) in the tracker, next to
\* the entry of any other peer that announced the same id.
C16_Ihave ==
    \A Q \in KnownPeers : \A id \in MessageIds : \A r \in EventRounds :
        \A t \in {handle_message(Self, IhaveMessage(Q, id, r), <<>>)} :
            /\ Enqueued(t) = <<>>
            /\ t.eager_push_peers = eager_push_peers
            /\ t.lazy_push_peers = lazy_push_peers
            /\ (id \in received_msgs)
               => /\ t.missing = missing
                  /\ \A k \in 1..RepairTicks : GraftsTo(Enqueued(Ticks(t, k)), Q, id) = {}
            /\ (id \notin received_msgs)
               => /\ Cardinality(EntriesOf(t.missing, id, Q)) = 1
                  /\ \A Q2 \in KnownPeers \ {Q} :
                       \A u \in {handle_message(t, IhaveMessage(Q2, id, r), <<>>)} :
                         /\ Cardinality(EntriesOf(u.missing, id, Q)) = 1
                         /\ Cardinality(EntriesOf(u.missing, id, Q2)) = 1

\* C17: handle_message, handle_tick, forget_message and poll_action leave the
\* set of known peers (eager_push_peers union lazy_push_peers) as it is;
\* handle_neighbour_up(n) adds n to it (nothing for n = node_id) and
\* handle_neighbour_down(n) removes n from it, and neither changes it
\* otherwise.
C17_KnownPeers ==
    [][/\ (last'.op \in {"handle_message", "handle_tick", "forget_message", "poll_action"})
          => eager_push_peers' \cup lazy_push_peers' = eager_push_peers \cup lazy_push_peers
       /\ (last'.op = "handle_neighbour_up")
          => eager_push_peers' \cup lazy_push_peers'
               = eager_push_peers \cup lazy_push_peers \cup ({last'.arg} \ {node_id})
       /\ (last'.op = "handle_neighbour_down")
          => eager_push_peers' \cup lazy_push_peers'
               = (eager_push_peers \cup lazy_push_peers) \ {last'.arg}]_vars

\* C17 witness: a Prune from a known peer moved it to the lazy set while the
\* other peer is eager; both are still known.
C17_Witness ==
    /\ last.op = "handle_message"
    /\ last.found
    /\ last.arg.kind = "Prune"
    /\ last.arg.sender \in lazy_push_peers
    /\ last.arg.sender \notin eager_push_peers
    /\ eager_push_peers # {}
    /\ KnownPeers = Peers

\* C18: a call enqueues Deliver(id) at most once, and only while id is not in
\* received_msgs, and then id is in received_msgs; id enters received_msgs
\* only in a call that enqueues Deliver(id) and leaves it only in
\* forget_message(id).  So between two Deliver(id) there is a
\* forget_message(id), whatever messages arrive in between.
C18_AtMostOnce ==
    [][\A id \in MessageIds :
         /\ Count(Appended, Deliver(id)) <= 1
         /\ (Count(Appended, Deliver(id)) = 1)
            => (id \notin received_msgs /\ id \in received_msgs')
         /\ (id \notin received_msgs /\ id \in received_msgs')
            => Count(Appended, Deliver(id)) = 1
         /\ (id \in received_msgs /\ id \notin received_msgs')
            => (last'.op = "forget_message" /\ last'.arg = id)]_vars

\* C18 witness: with every id received, a Gossip was handled as a duplicate:
\* its Prune is queued and no Deliver is.
C18_Witness ==
    /\ last.op = "handle_message"
    /\ last.found
    /\ last.arg.kind = "Gossip"
    /\ received_msgs = MessageIds
    /\ action_queue = <<Send(last.arg.sender, PruneMessage(node_id))>>

\* C19: every Send a call enqueues carries a message whose sender is node_id
\* and has a target that is not node_id and is a known peer (eager or lazy)
\* when the call is made.
C19_Sends ==
    [][\A i \in 1..Len(Appended) :
         (Appended[i].type = "Send")
         => /\ Appended[i].message.sender = node_id
            /\ Appended[i].target # node_id
            /\ Appended[i].target \in eager_push_peers \cup lazy_push_peers]_vars

\* C19 witness: a first-seen Gossip from one peer was handled and the Gossip
\* and the Ihave for the other peer, both with sender node_id, are queued.
C19_Witness ==
    /\ last.op = "handle_message"
    /\ last.found
    /\ last.arg.kind = "Gossip"
    /\ Len(action_queue) = 3
    /\ \E p \in KnownPeers \ {last.arg.sender} :
         /\ action_queue[2].target = p
         /\ action_queue[2].message.kind = "Gossip"
         /\ action_queue[2].message.sender = node_id
         /\ action_queue[3].target = p
         /\ action_queue[3].message.kind = "Ihave"
         /\ action_queue[3].message.sender = node_id

\* Node n has handed Deliver(id) to the application: the Deliver was enqueued
\* (id is in received_msgs, which nothing forgets here) and polled.
NetDelivered(n, id) ==
    /\ id \in received_msgs[n]
    /\ Count(action_queue[n], Deliver(id)) = 0

\* Nothing is in flight and nothing will be: every queue has been polled
\* empty, no tracker holds an announcement a later handle_tick could act on,
\* and the ticks have run.
NetQuiescent ==
    \A n \in NetNodes :
        /\ action_queue[n] = <<>>
        /\ missing[n] = {}
        /\ clock[n] = NetClock

\* C20: in the simulation, a Gossip first seen at one node is followed by a
\* Deliver of its id at every node: when the simulation has come to rest,
\* every id some node has seen has been delivered at every node.
C20_Dissemination ==
    NetQuiescent
    => \A i \in 1..Len(NetOrder) :
         NetSeen(NetOrder[i]) => \A n \in NetNodes : NetDelivered(n, NetOrder[i])

=============================================================================
